---- MODULE Spec2Model ----
(***************************************************************************)
(* Model of the forklift telemetry pipeline: the ingestion listener of     *)
(* forklift_server.py (start_server, handle_client, the vehicle registry   *)
(* csv_files, the per-vehicle logs and the shared impacts log) and the     *)
(* indoor position estimator process_indoor_position.                      *)
(*                                                                         *)
(* A file is the sequence of its rows.  A worker writes a handful of rows  *)
(* through a buffered csv writer, so its rows reach the file in one piece  *)
(* when the "with open(...)" block is left.                                *)
(***************************************************************************)
EXTENDS Integers, Sequences, FiniteSets, TLC

(* ------------------------------ bounds -------------------------------- *)

\* connections the listener accepts in one run of Spec
MaxConn == 2
\* signal strengths of a reading: -100 + 20*k dBm for k in 0..MaxRssiStep
MaxRssiStep == 2
\* impact events carried by one record, 0..MaxImpacts
MaxImpacts == 1

(* --------------------------- configuration ---------------------------- *)

BEACON_POSITIONS_swapped ==
    [b \in {"beacon1", "beacon2", "beacon3", "beacon4"} |->
        CASE b = "beacon1" -> <<0, 0>>
          [] b = "beacon2" -> <<25, 0>>
          [] b = "beacon3" -> <<25, 0>>
          [] b = "beacon4" -> <<0, 20>>]

BEACON_POSITIONS ==
    [b \in {"beacon1", "beacon2", "beacon3", "beacon4"} |->
        CASE b = "beacon1" -> <<0, 0>>
          [] b = "beacon2" -> <<25, 0>>
          [] b = "beacon3" -> <<25, 20>>
          [] b = "beacon4" -> <<0, 20>>]

\* a beacon id that the geometry does not know
UnknownBeacon == "beacon9"
BeaconIds == DOMAIN BEACON_POSITIONS \cup {UnknownBeacon}

\* a reading that carries no 'rssi' key
NoRssi == 1
RssiValues == {20 * k - 100 : k \in 0..MaxRssiStep}
\* an 'rssi' that is not a number (a json string): rssi + 100 raises TypeError
BadRssi == 3
Reading == [distance : {5}, rssi : RssiValues \cup {NoRssi}]

(* ------------------------ process_indoor_position --------------------- *)

RECURSIVE Pow10(_)
Pow10(n) == IF n <= 0 THEN 1 ELSE 10 * Pow10(n - 1)

\* weight = 10 ** ((rssi + 100) / 20), exact for the signal strengths of RssiValues
Weight(rssi) == Pow10((rssi + 100) \div 20)

\* the readings that enter the sums: beacon_id in BEACON_POSITIONS and 'rssi' in data
Contributing(beacon_readings) ==
    {b \in DOMAIN beacon_readings :
        b \in DOMAIN BEACON_POSITIONS /\ beacon_readings[b].rssi # NoRssi}

\* sum over the beacons of S of weight * (coordinate axis of pos[b]); axis 0 is the weight alone
RECURSIVE WeightedSum(_, _, _, _)
WeightedSum(beacon_readings, S, pos, axis) ==
    IF S = {} THEN 0
    ELSE LET b == CHOOSE c \in S : TRUE
             w == Weight(beacon_readings[b].rssi)
         IN  (IF axis = 0 THEN w ELSE pos[b][axis] * w)
             + WeightedSum(beacon_readings, S \ {b}, pos, axis)

\* the estimator raises: a reading that enters the sums has an rssi that is not a
\* number, and the weight cannot be computed
EstimateRaises(beacon_readings) ==
    \E b \in Contributing(beacon_readings) : beacon_readings[b].rssi = BadRssi

\* (None, None)
NoEstimate == [ok |-> FALSE, x |-> <<0, 1>>, y |-> <<0, 1>>]

\* a coordinate pair; x and y are the fractions <<numerator, denominator>>
Estimate(xs, ys, tw) == [ok |-> TRUE, x |-> <<xs, tw>>, y |-> <<ys, tw>>]

process_indoor_position_origin(beacon_readings) ==
    IF DOMAIN beacon_readings = {} THEN NoEstimate
    ELSE LET S  == Contributing(beacon_readings)
             tw == WeightedSum(beacon_readings, S, BEACON_POSITIONS, 0)
             xs == WeightedSum(beacon_readings, S, BEACON_POSITIONS, 1)
             ys == WeightedSum(beacon_readings, S, BEACON_POSITIONS, 2)
         IN  IF tw > 0 THEN Estimate(xs, ys, tw) ELSE Estimate(0, 0, 1)

process_indoor_position_default(beacon_readings) ==
    IF DOMAIN beacon_readings = {} THEN NoEstimate
    ELSE LET S   == {b \in DOMAIN beacon_readings : beacon_readings[b].rssi # NoRssi}
             pos == [b \in S |-> IF b \in DOMAIN BEACON_POSITIONS
                                 THEN BEACON_POSITIONS[b] ELSE <<0, 0>>]
             tw  == WeightedSum(beacon_readings, S, pos, 0)
             xs  == WeightedSum(beacon_readings, S, pos, 1)
             ys  == WeightedSum(beacon_readings, S, pos, 2)
         IN  IF tw > 0 THEN Estimate(xs, ys, tw) ELSE NoEstimate

process_indoor_position(beacon_readings) ==
    IF DOMAIN beacon_readings = {} THEN NoEstimate
    ELSE LET S  == Contributing(beacon_readings)
             tw == WeightedSum(beacon_readings, S, BEACON_POSITIONS, 0)
             xs == WeightedSum(beacon_readings, S, BEACON_POSITIONS, 1)
             ys == WeightedSum(beacon_readings, S, BEACON_POSITIONS, 2)
         IN  IF tw > 0 THEN Estimate(xs, ys, tw) ELSE NoEstimate

\* round(v, 2) of the fraction q, in hundredths (ties to the even hundredth)
Round2(q) ==
    LET n == 100 * q[1]
        d == q[2]
        f == n \div d
        r == n % d
    IN  IF 2 * r > d \/ (2 * r = d /\ f % 2 = 1) THEN f + 1 ELSE f

(* ------------------------------ messages ------------------------------ *)

ForkliftIds == {"FL-001", "FL-002"}
\* data.get('forklift_id') of a record without the field, and an empty id
NoneId == "None"
EmptyId == ""
FileNames == ForkliftIds \cup {NoneId, EmptyId}

\* the impact events a record carries: the first n of the vehicle's impact list
ImpactList(n) == [i \in 1..n |-> [timestamp |-> i, magnitude |-> 2, position |-> <<0, 0>>]]

\* numbers of a record are in hundredths (the simulator rounds them to two decimals)
DefaultPosition == [x |-> 300, y |-> 400]

\* what one connection delivers; kind "empty" is a read of no bytes, "malformed" a
\* payload json.loads rejects, "json" a parsed object with the fields below
Msg(kind, id, env, has, br, n) ==
    [kind |-> kind, timestamp |-> 0, forklift_id |-> id, environment |-> env,
     position |-> DefaultPosition, speed |-> 0, max_speed |-> 0, avg_speed |-> 0,
     distance_traveled |-> 0, battery_level |-> 5000, standing_still |-> FALSE,
     has_beacon_readings |-> has, beacon_readings |-> br, impacts |-> ImpactList(n)]

NoReadings == [b \in {} |-> [distance |-> 5, rssi |-> NoRssi]]
EmptyMsg == Msg("empty", NoneId, "outdoor", FALSE, NoReadings, 0)
MalformedMsg == Msg("malformed", NoneId, "outdoor", FALSE, NoReadings, 0)

\* every reading set over the known beacons and one unknown beacon
ReadingSets ==
    UNION {[S -> Reading] : S \in SUBSET BeaconIds}

\* a reading set whose one reading, of a configured beacon, has a string as rssi
BadReadings == [b \in {"beacon1"} |-> [distance |-> 5, rssi |-> BadRssi]]

\* the reading set of an indoor vehicle: one reading per configured beacon
FullReadings == [b \in DOMAIN BEACON_POSITIONS |-> [distance |-> 5, rssi |-> -80]]

\* the records of Spec: few shapes, so that several workers can interleave
Messages ==
    {EmptyMsg, MalformedMsg}
    \cup {Msg("json", id, "outdoor", TRUE, NoReadings, 0) : id \in {NoneId, EmptyId}}
    \cup {Msg("json", id, "outdoor", TRUE, NoReadings, n) :
             id \in ForkliftIds, n \in {0, MaxImpacts}}
    \cup {Msg("json", "FL-001", "indoor", TRUE, FullReadings, 0)}

\* the records of SpecEst: every reading set, on one connection
RichMessages ==
    {EmptyMsg, MalformedMsg}
    \cup {Msg("json", id, "indoor", TRUE, NoReadings, 0) : id \in {NoneId, EmptyId}}
    \cup {Msg("json", "FL-001", "indoor", TRUE, br, MaxImpacts) : br \in ReadingSets}
    \cup {Msg("json", "FL-001", "indoor", TRUE, BadReadings, 0)}
    \cup {[Msg("json", "FL-001", env, has, br, 0) EXCEPT !.position = p] :
             env \in {"indoor", "outdoor"}, has \in BOOLEAN,
             br \in {NoReadings, FullReadings},
             p \in {DefaultPosition, [x |-> 1250, y |-> 1000]}}

(* ----------------------- simulator: configuration --------------------- *)

\* Units of the simulator's numbers: time in seconds; a coordinate and the distance
\* travelled in steps of 4 cm (PosUnitsPerMeter to the metre); speed in steps of
\* 0.2 m/s (SpeedUnitsPerMps to the m/s); the battery level in hundredths of a per
\* cent; a heading as the pair (5 cos, 5 sin) of a right triangle with integer sides.
PosUnitsPerMeter == 25
SpeedUnitsPerMps == 5
BatteryUnitsPerPercent == 100

\* ticks of the simulation loop in SpecSim, and in the runs that collect impacts
MaxTicks == 2
MaxImpactTicks == 6
\* snapshots a sender takes in one run, and connections of it the listener accepts
MaxSnapshots == 2
MaxDeliveries == 1

ENVIRONMENT_SIZE ==
    [e \in {"indoor", "outdoor"} |->
        IF e = "indoor" THEN <<25 * PosUnitsPerMeter, 20 * PosUnitsPerMeter>>
        ELSE <<1000 * PosUnitsPerMeter, 1000 * PosUnitsPerMeter>>]

CHARGING_STATIONS ==
    [c \in {"indoor_charge1", "indoor_charge2", "outdoor_charge1", "outdoor_charge2"} |->
        CASE c = "indoor_charge1" -> <<2 * PosUnitsPerMeter, 2 * PosUnitsPerMeter>>
          [] c = "indoor_charge2" -> <<23 * PosUnitsPerMeter, 18 * PosUnitsPerMeter>>
          [] c = "outdoor_charge1" -> <<100 * PosUnitsPerMeter, 100 * PosUnitsPerMeter>>
          [] c = "outdoor_charge2" -> <<900 * PosUnitsPerMeter, 900 * PosUnitsPerMeter>>]

RSSI_AT_1M == -60
MAX_SPEED_INDOOR == 2 * SpeedUnitsPerMps
MAX_SPEED_OUTDOOR == 5 * SpeedUnitsPerMps
\* 0.2 m/s per second: one speed unit per second
ACCELERATION == 1
\* the charging radius, 3 m
ChargeRadius == 3 * PosUnitsPerMeter
\* the battery level below which a vehicle charges, 30 %
LowBattery == 30 * BatteryUnitsPerPercent
FullBattery == 100 * BatteryUnitsPerPercent
\* battery drained and recharged per second: 0.01 % and 2 %
DrainRate == 1
RechargeRate == 2 * BatteryUnitsPerPercent
\* self.speed_readings[-100:] and self.impacts[-5:]
SpeedWindow == 100
ImpactWindow == 5

Max(a, b) == IF a >= b THEN a ELSE b
Min(a, b) == IF a <= b THEN a ELSE b

\* the largest r in lo..hi with r * r <= n
RECURSIVE SqrtBetween(_, _, _)
SqrtBetween(n, lo, hi) ==
    IF lo >= hi THEN lo
    ELSE LET mid == (lo + hi + 1) \div 2
         IN  IF mid * mid <= n THEN SqrtBetween(n, mid, hi)
             ELSE SqrtBetween(n, lo, mid - 1)

\* math.sqrt, rounded down to the unit
Isqrt(n) == SqrtBetween(n, 0, 46340)

\* math.sqrt, rounded to the nearest unit
RoundSqrt(n) == LET r == Isqrt(n) IN IF n - r * r > r THEN r + 1 ELSE r

\* the square of calculate_distance(x1, y1, x2, y2)
Distance2(x1, y1, x2, y2) == (x2 - x1) * (x2 - x1) + (y2 - y1) * (y2 - y1)

calculate_distance_signed(x1, y1, x2, y2) == (x2 - x1) + (y2 - y1)

calculate_distance(x1, y1, x2, y2) == Isqrt(Distance2(x1, y1, x2, y2))

\* some charging station is less than 3 m away (the loop looks at every station)
NearStation(x, y) ==
    \E c \in DOMAIN CHARGING_STATIONS :
        Distance2(x, y, CHARGING_STATIONS[c][1], CHARGING_STATIONS[c][2])
            < ChargeRadius * ChargeRadius

\* battery_level -= 0.01 * time_delta, not below 0
Drain(battery, dt) == Max(0, battery - DrainRate * dt)

Recharge_unclamped(battery, dt) == battery + RechargeRate * dt

\* battery_level += 2 * time_delta, not above 100
Recharge(battery, dt) == Min(FullBattery, battery + RechargeRate * dt)

Clamp_loose(v, size) == Max(0 - 1, Min(size + 1, v))

\* max(0, min(size, v))
Clamp(v, size) == Max(0, Min(size, v))

\* the last n elements of a list: list[-n:]
LastN(list, n) ==
    IF Len(list) <= n THEN list ELSE SubSeq(list, Len(list) - n + 1, Len(list))

RecentImpacts_first(impacts) ==
    IF Len(impacts) <= ImpactWindow THEN impacts ELSE SubSeq(impacts, 1, ImpactWindow)

\* self.impacts[-5:] if self.impacts else []
RecentImpacts(impacts) == LastN(impacts, ImpactWindow)

\* a ForkliftSimulator as __init__ leaves it; pc is the position of its thread in
\* _simulation_loop, tick the values the running tick started from, stop the
\* position of a call of stop() and stopped_at where the loop was when stop()
\* cleared running
NewSimulator(id, env, x, y, direction, battery) ==
    [forklift_id |-> id, environment |-> env, room_size |-> ENVIRONMENT_SIZE[env],
     x |-> x, y |-> y, speed |-> 0,
     max_speed |-> IF env = "indoor" THEN MAX_SPEED_INDOOR ELSE MAX_SPEED_OUTDOOR,
     direction |-> direction, distance_traveled |-> 0, standing_still |-> FALSE,
     battery_level |-> battery, impacts |-> <<>>,
     max_recorded_speed |-> 0, speed_readings |-> <<>>,
     running |-> TRUE, pc |-> "battery", time_delta |-> 0, ticks |-> 0,
     stop |-> "none", stopped_at |-> [ticks |-> 0, pc |-> "battery"],
     tick |-> [x |-> x, y |-> y, battery_level |-> battery, distance_traveled |-> 0,
               charged |-> FALSE, impacts |-> 0]]

\* the simulator of the runs in which only the listener acts
IdleSimulator == NewSimulator("FL-001", "indoor", 300, 250, <<5, 0>>, 50 * BatteryUnitsPerPercent)

(* ------------------------------- state -------------------------------- *)

VARIABLES
    serverPc,      \* start_server: "accept" while the accept loop runs, else "closed"
    accepted,      \* number of connections accepted so far
    msg,           \* msg[w]: what connection w delivers
    sock,          \* sock[w]: "none", "open" or "closed"
    pc,            \* pc[w]: the position of worker w in handle_client
    est,           \* est[w]: what process_indoor_position returned to worker w
    processed,     \* processed[w]: data['processed_indoor_position'], in hundredths
    csv_files,     \* the registry: forklift id -> path of its log
    files,         \* the vehicle logs of the session folder, by file name
    impacts_csv,   \* the rows of impacts.csv
    did            \* did[w]: what worker w has done so far (history)

VARIABLES
    sim,           \* the ForkliftSimulator and the position of its thread
    telemetry      \* the snapshot get_telemetry returned last

VARIABLES
    snd,           \* the TelemetrySender and the position of its thread
    conns          \* the sockets the sender has created, in order of creation

vars == <<serverPc, accepted, msg, sock, pc, est, processed, csv_files, files,
          impacts_csv, did, sim, telemetry, snd, conns>>

\* what the sender's steps change besides the snapshot
sender == <<snd, conns>>

\* what the listener's steps leave alone
producer == <<sim, telemetry, snd, conns>>

\* what the simulator's steps leave alone
listener == <<serverPc, accepted, msg, sock, pc, est, processed, csv_files, files,
              impacts_csv, did>>

Conns == 1..MaxConn

\* a TelemetrySender as __init__ leaves it; pc is the position of its thread in
\* _sender_loop, now the clock in sender periods; iteration, taken and attempts
\* record the iterations begun, the snapshots taken and the sends begun
NewSender ==
    [running |-> TRUE, pc |-> "loop", now |-> 0, iteration |-> 0, taken |-> 0,
     attempts |-> <<>>,
     stop |-> "none", stopped_at |-> [iteration |-> 0, pc |-> "loop"]]

PathOf_shared(id) == "FL-001"

\* the path initialize_forklift_csv returns for an id, and a value that is no path
PathOf(id) == id
BadPath == "<no path>"

NoFile == [exists |-> FALSE, rows |-> <<>>]
NoProcessed == [set |-> FALSE, x |-> 0, y |-> 0]

\* an empty cell ('') of a row
BlankCell == 0

\* the header row of a vehicle log
Header ==
    [kind |-> "header", timestamp |-> 0, forklift_id |-> "forklift_id",
     environment |-> "environment", x_position |-> 0, y_position |-> 0,
     speed |-> 0, max_speed |-> 0, avg_speed |-> 0, distance_traveled |-> 0,
     battery_level |-> 0, standing_still |-> 0,
     beacons |-> [b \in DOMAIN BEACON_POSITIONS |-> <<BlankCell, BlankCell>>]]

\* the header row of impacts.csv
ImpactsHeader == [kind |-> "header", timestamp |-> 0, forklift_id |-> "forklift_id",
                  magnitude |-> 0, x_position |-> 0, y_position |-> 0]

Init ==
    /\ serverPc = "accept"
    /\ accepted = 0
    /\ msg = [w \in Conns |-> EmptyMsg]
    /\ sock = [w \in Conns |-> "none"]
    /\ pc = [w \in Conns |-> "none"]
    /\ est = [w \in Conns |-> NoEstimate]
    /\ processed = [w \in Conns |-> NoProcessed]
    /\ csv_files = [i \in {} |-> BadPath]
    /\ files = [f \in FileNames |-> NoFile]
    /\ impacts_csv = <<ImpactsHeader>>
    /\ did = [w \in Conns |-> {}]
    /\ sim = IdleSimulator
    /\ telemetry = EmptyMsg
    /\ snd = NewSender
    /\ conns = <<>>

(* ---------------------------- start_server ---------------------------- *)

\* one turn of the accept loop: a connection arrives carrying one of Msgs and is
\* handed to a new worker thread; the record's timestamp tells the records apart
start_server(Msgs) ==
    /\ serverPc = "accept"
    /\ accepted < MaxConn
    /\ \E m \in Msgs :
          msg' = [msg EXCEPT ![accepted + 1] = [m EXCEPT !.timestamp = accepted + 1]]
    /\ accepted' = accepted + 1
    /\ sock' = [sock EXCEPT ![accepted + 1] = "open"]
    /\ pc' = [pc EXCEPT ![accepted + 1] = "recv"]
    /\ UNCHANGED <<serverPc, est, processed, csv_files, files, impacts_csv, did>>
    /\ UNCHANGED producer

(* ---------------------------- handle_client --------------------------- *)

\* not forklift_id
MissingId_never(id) == FALSE

MissingId(id) == id \in {NoneId, EmptyId}

Finish_open(w) ==
    /\ pc' = [pc EXCEPT ![w] = "done"]
    /\ UNCHANGED sock

\* the worker leaves handle_client: the finally clause closes the connection
Finish(w) ==
    /\ pc' = [pc EXCEPT ![w] = "done"]
    /\ sock' = [sock EXCEPT ![w] = "closed"]

\* where the worker goes after update_forklift_csv: 'impacts' in data and data['impacts']
AfterAppend(w) ==
    IF msg[w].impacts # <<>>
    THEN pc' = [pc EXCEPT ![w] = "impacts_open"] /\ UNCHANGED sock
    ELSE Finish(w)

\* recv, json.loads and the forklift id: an empty read and a missing id return, a
\* payload that does not parse raises; all three end in the finally clause
Recv(w) ==
    /\ pc[w] = "recv"
    /\ IF msg[w].kind # "json" \/ MissingId(msg[w].forklift_id)
       THEN /\ Finish(w)
            /\ did' = [did EXCEPT ![w] = @ \cup {"rejected"}]
       ELSE /\ pc' = [pc EXCEPT ![w] = "lookup"]
            /\ UNCHANGED <<sock, did>>
    /\ UNCHANGED <<serverPc, accepted, msg, est, processed, csv_files, files, impacts_csv>>
    /\ UNCHANGED producer

\* if forklift_id not in csv_files
Lookup(w) ==
    /\ pc[w] = "lookup"
    /\ pc' = [pc EXCEPT ![w] =
                 IF msg[w].forklift_id \in DOMAIN csv_files THEN "estimate" ELSE "init_open"]
    /\ UNCHANGED <<serverPc, accepted, msg, sock, est, processed, csv_files, files,
                   impacts_csv, did>>
    /\ UNCHANGED producer

\* initialize_forklift_csv: open(csv_path, 'w') creates the file or truncates it
InitOpen(w) ==
    /\ pc[w] = "init_open"
    /\ files' = [files EXCEPT ![PathOf(msg[w].forklift_id)] = [exists |-> TRUE, rows |-> <<>>]]
    /\ pc' = [pc EXCEPT ![w] = "init_write"]
    /\ did' = [did EXCEPT ![w] = @ \cup {"create"}]
    /\ UNCHANGED <<serverPc, accepted, msg, sock, est, processed, csv_files, impacts_csv>>
    /\ UNCHANGED producer

\* the registry after initialize_forklift_csv raised: the assignment never happens
AfterInitError_unusable(registry, id) ==
    [i \in DOMAIN registry \cup {id} |-> IF i = id THEN BadPath ELSE registry[i]]

AfterInitError(registry, id) == registry

\* initialize_forklift_csv: the open fails; the exception leaves handle_client
\* through its except clause
InitOpenError(w) ==
    /\ pc[w] = "init_open"
    /\ csv_files' = AfterInitError(csv_files, msg[w].forklift_id)
    /\ did' = [did EXCEPT ![w] = @ \cup {"ioerror"}]
    /\ Finish(w)
    /\ UNCHANGED <<serverPc, accepted, msg, est, processed, files, impacts_csv>>
    /\ UNCHANGED producer

\* the header row, written at offset 0 of a file opened with 'w'
WriteHeader(rows) == IF rows = <<>> THEN <<Header>> ELSE [rows EXCEPT ![1] = Header]

\* initialize_forklift_csv: writer.writerow(headers) and the end of the with block
InitWrite(w) ==
    /\ pc[w] = "init_write"
    /\ files' = [files EXCEPT ![PathOf(msg[w].forklift_id)].rows = WriteHeader(@)]
    /\ pc' = [pc EXCEPT ![w] = "register"]
    /\ UNCHANGED <<serverPc, accepted, msg, sock, est, processed, csv_files, impacts_csv, did>>
    /\ UNCHANGED producer

\* csv_files[forklift_id] = the path returned
Register(w) ==
    /\ pc[w] = "register"
    /\ csv_files' = [i \in DOMAIN csv_files \cup {msg[w].forklift_id} |->
                        IF i = msg[w].forklift_id THEN PathOf(i) ELSE csv_files[i]]
    /\ pc' = [pc EXCEPT ![w] = "estimate"]
    /\ did' = [did EXCEPT ![w] = @ \cup {"register"}]
    /\ UNCHANGED <<serverPc, accepted, msg, sock, est, processed, files, impacts_csv>>
    /\ UNCHANGED producer

WantsEstimate_any(data) == data.has_beacon_readings

\* data.get('environment') == 'indoor' and 'beacon_readings' in data
WantsEstimate(data) == data.environment = "indoor" /\ data.has_beacon_readings

\* the estimator is called for an indoor record with readings, and its result is
\* attached, rounded, as processed_indoor_position when it is a coordinate; an
\* exception of the estimator leaves handle_client through its except clause
EstimateStep(w) ==
    /\ pc[w] = "estimate"
    /\ IF WantsEstimate(msg[w]) /\ EstimateRaises(msg[w].beacon_readings)
       THEN /\ did' = [did EXCEPT ![w] = @ \cup {"raised"}]
            /\ Finish(w)
            /\ UNCHANGED <<est, processed>>
       ELSE /\ IF WantsEstimate(msg[w])
               THEN LET e == process_indoor_position(msg[w].beacon_readings)
                    IN  /\ est' = [est EXCEPT ![w] = e]
                        /\ processed' = [processed EXCEPT ![w] =
                              IF e.ok
                              THEN [set |-> TRUE, x |-> Round2(e.x), y |-> Round2(e.y)]
                              ELSE NoProcessed]
                        /\ did' = [did EXCEPT ![w] = @ \cup {"estimate"}]
               ELSE UNCHANGED <<est, processed, did>>
            /\ pc' = [pc EXCEPT ![w] = "append_open"]
            /\ UNCHANGED sock
    /\ UNCHANGED <<serverPc, accepted, msg, csv_files, files, impacts_csv>>
    /\ UNCHANGED producer

\* the beacon columns of a row: distance and rssi of each configured beacon, blank
\* when the record has no reading of it
BeaconCells(data) ==
    [b \in DOMAIN BEACON_POSITIONS |->
        IF data.has_beacon_readings /\ b \in DOMAIN data.beacon_readings
        THEN <<data.beacon_readings[b].distance,
               IF data.beacon_readings[b].rssi = NoRssi THEN BlankCell
               ELSE data.beacon_readings[b].rssi>>
        ELSE <<BlankCell, BlankCell>>]

RowOf_estimated(data) ==
    LET e == IF WantsEstimate(data) THEN process_indoor_position(data.beacon_readings)
             ELSE NoEstimate
    IN  [kind |-> "row", timestamp |-> data.timestamp, forklift_id |-> data.forklift_id,
         environment |-> data.environment,
         x_position |-> IF e.ok THEN Round2(e.x) ELSE data.position.x,
         y_position |-> IF e.ok THEN Round2(e.y) ELSE data.position.y,
         speed |-> data.speed, max_speed |-> data.max_speed, avg_speed |-> data.avg_speed,
         distance_traveled |-> data.distance_traveled,
         battery_level |-> data.battery_level,
         standing_still |-> IF data.standing_still THEN 1 ELSE 0,
         beacons |-> BeaconCells(data)]

\* the row update_forklift_csv builds from a record
RowOf(data) ==
    [kind |-> "row", timestamp |-> data.timestamp, forklift_id |-> data.forklift_id,
     environment |-> data.environment,
     x_position |-> data.position.x, y_position |-> data.position.y,
     speed |-> data.speed, max_speed |-> data.max_speed, avg_speed |-> data.avg_speed,
     distance_traveled |-> data.distance_traveled,
     battery_level |-> data.battery_level,
     standing_still |-> IF data.standing_still THEN 1 ELSE 0,
     beacons |-> BeaconCells(data)]

\* update_forklift_csv: open(csv_path, 'a') on the path the registry holds
AppendOpen(w) ==
    /\ pc[w] = "append_open"
    /\ csv_files[msg[w].forklift_id] # BadPath
    /\ files' = [files EXCEPT ![csv_files[msg[w].forklift_id]].exists = TRUE]
    /\ pc' = [pc EXCEPT ![w] = "append_write"]
    /\ UNCHANGED <<serverPc, accepted, msg, sock, est, processed, csv_files, impacts_csv, did>>
    /\ UNCHANGED producer

\* update_forklift_csv: the open fails (an I/O error, or no usable path); the
\* function prints the error and returns
AppendOpenError(w) ==
    /\ pc[w] = "append_open"
    /\ did' = [did EXCEPT ![w] = @ \cup
                 {IF csv_files[msg[w].forklift_id] = BadPath THEN "badpath" ELSE "ioerror"}]
    /\ AfterAppend(w)
    /\ UNCHANGED <<serverPc, accepted, msg, est, processed, csv_files, files, impacts_csv>>
    /\ UNCHANGED producer

\* update_forklift_csv: the row reaches the end of the file
AppendWrite(w) ==
    /\ pc[w] = "append_write"
    /\ files' = [files EXCEPT ![csv_files[msg[w].forklift_id]].rows = Append(@, RowOf(msg[w]))]
    /\ did' = [did EXCEPT ![w] = @ \cup {"append"}]
    /\ AfterAppend(w)
    /\ UNCHANGED <<serverPc, accepted, msg, est, processed, csv_files, impacts_csv>>
    /\ UNCHANGED producer

\* the rows update_impacts_csv builds from the impacts of a record
ImpactRows(id, impacts) ==
    [i \in 1..Len(impacts) |->
        [kind |-> "row", timestamp |-> impacts[i].timestamp, forklift_id |-> id,
         magnitude |-> impacts[i].magnitude,
         x_position |-> impacts[i].position[1], y_position |-> impacts[i].position[2]]]

\* update_impacts_csv: open(csv_path, 'a')
ImpactsOpen(w) ==
    /\ pc[w] = "impacts_open"
    /\ pc' = [pc EXCEPT ![w] = "impacts_write"]
    /\ UNCHANGED <<serverPc, accepted, msg, sock, est, processed, csv_files, files,
                   impacts_csv, did>>
    /\ UNCHANGED producer

\* update_impacts_csv: the open fails; the function prints the error and returns
ImpactsOpenError(w) ==
    /\ pc[w] = "impacts_open"
    /\ did' = [did EXCEPT ![w] = @ \cup {"ioerror"}]
    /\ Finish(w)
    /\ UNCHANGED <<serverPc, accepted, msg, est, processed, csv_files, files, impacts_csv>>
    /\ UNCHANGED producer

\* update_impacts_csv that skips the rows impacts.csv already holds
ImpactsWrite_once(w) ==
    /\ pc[w] = "impacts_write"
    /\ impacts_csv' = impacts_csv \o
           SelectSeq(ImpactRows(msg[w].forklift_id, msg[w].impacts),
                     LAMBDA r : \A i \in DOMAIN impacts_csv : impacts_csv[i] # r)
    /\ did' = [did EXCEPT ![w] = @ \cup {"impacts"}]
    /\ Finish(w)
    /\ UNCHANGED <<serverPc, accepted, msg, est, processed, csv_files, files>>
    /\ UNCHANGED producer

\* update_impacts_csv: one row per impact reaches the end of impacts.csv
ImpactsWrite(w) ==
    /\ pc[w] = "impacts_write"
    /\ impacts_csv' = impacts_csv \o ImpactRows(msg[w].forklift_id, msg[w].impacts)
    /\ did' = [did EXCEPT ![w] = @ \cup {"impacts"}]
    /\ Finish(w)
    /\ UNCHANGED <<serverPc, accepted, msg, est, processed, csv_files, files>>
    /\ UNCHANGED producer

handle_client(w) ==
    \/ Recv(w)
    \/ Lookup(w)
    \/ InitOpen(w)
    \/ InitOpenError(w)
    \/ InitWrite(w)
    \/ Register(w)
    \/ EstimateStep(w)
    \/ AppendOpen(w)
    \/ AppendOpenError(w)
    \/ AppendWrite(w)
    \/ ImpactsOpen(w)
    \/ ImpactsOpenError(w)
    \/ ImpactsWrite(w)

(* --------------------------- specifications --------------------------- *)

\* the listener with up to MaxConn connections whose workers interleave
Next ==
    \/ start_server(Messages)
    \/ \E w \in Conns : handle_client(w)

Spec == Init /\ [][Next]_vars

\* one connection, carrying any record of RichMessages, handled from its read on
InitEst ==
    /\ serverPc = "accept"
    /\ accepted = 1
    /\ \E m \in RichMessages :
          msg = [w \in Conns |-> IF w = 1 THEN [m EXCEPT !.timestamp = 1] ELSE EmptyMsg]
    /\ sock = [w \in Conns |-> IF w = 1 THEN "open" ELSE "none"]
    /\ pc = [w \in Conns |-> IF w = 1 THEN "recv" ELSE "none"]
    /\ est = [w \in Conns |-> NoEstimate]
    /\ processed = [w \in Conns |-> NoProcessed]
    /\ csv_files = [i \in {} |-> BadPath]
    /\ files = [f \in FileNames |-> NoFile]
    /\ impacts_csv = <<ImpactsHeader>>
    /\ did = [w \in Conns |-> {}]
    /\ sim = IdleSimulator
    /\ telemetry = EmptyMsg
    /\ snd = NewSender
    /\ conns = <<>>

NextEst == \E w \in Conns : handle_client(w)

SpecEst == InitEst /\ [][NextEst]_vars

(* ------------------------------- claims ------------------------------- *)

\* the record of connection w is a parsed object with a forklift id
Valid(w) == w <= accepted /\ msg[w].kind = "json" /\ ~MissingId(msg[w].forklift_id)

\* the workers that opened the log of id with 'w'
Creators(id) == {w \in Conns : msg[w].forklift_id = id /\ "create" \in did[w]}

IsPrefix(s, t) == Len(s) <= Len(t) /\ SubSeq(t, 1, Len(s)) = s

InSeq(x, s) == \E i \in 1..Len(s) : s[i] = x

\* C1: the log of a vehicle id is created (opened for write, header emitted) at
\* most once in a session, however the workers that carry the id interleave.
C1_CreatedExactlyOnce ==
    \A id \in ForkliftIds : Cardinality(Creators(id)) <= 1

\* C2: once two workers that carried valid records of the same new id have both
\* finished (and no open failed), the log of the id exists and holds a row for
\* each of the two records.
C2_BothRecordsInOneLog ==
    \A w1, w2 \in Conns :
        ( /\ w1 < w2
          /\ Valid(w1) /\ Valid(w2)
          /\ msg[w1].forklift_id = msg[w2].forklift_id
          /\ pc[w1] = "done" /\ pc[w2] = "done"
          /\ \A w \in Conns : "ioerror" \notin did[w] )
        => /\ files[PathOf(msg[w1].forklift_id)].exists
           /\ InSeq(RowOf(msg[w1]), files[PathOf(msg[w1].forklift_id)].rows)
           /\ InSeq(RowOf(msg[w2]), files[PathOf(msg[w2].forklift_id)].rows)

\* C3: a vehicle log is append-only: every step leaves the rows a log held as a
\* prefix of the rows it holds afterwards.
C3_AppendOnly ==
    [][\A f \in FileNames : IsPrefix(files[f].rows, files'[f].rows)]_vars

\* C4: no two workers are inside the write of impact rows (between the open and
\* the close of update_impacts_csv) at the same time.
C4_ImpactsSerialized ==
    Cardinality({w \in Conns : pc[w] = "impacts_write"}) <= 1

\* C5: no two workers are inside update_forklift_csv (between its open and its
\* close) for the same log path at the same time.
C5_VehicleLogSerialized ==
    \A w1, w2 \in Conns :
        (w1 # w2 /\ pc[w1] = "append_write" /\ pc[w2] = "append_write")
        => csv_files[msg[w1].forklift_id] # csv_files[msg[w2].forklift_id]

\* C6: a worker whose message does not parse, or parses without a forklift id,
\* creates no log, adds nothing to the registry, appends no row to a vehicle log
\* or to the impacts log, and ends with its connection closed.
C6_RejectedLeavesNoTrace ==
    /\ \A w \in Conns :
          (w <= accepted /\ (msg[w].kind = "malformed" \/
               (msg[w].kind = "json" /\ msg[w].forklift_id \in {NoneId, EmptyId})))
          => /\ pc[w] \in {"recv", "done"}
             /\ did[w] \subseteq {"rejected"}
             /\ pc[w] = "done" => sock[w] = "closed"
    /\ \A id \in {NoneId, EmptyId} :
          /\ id \notin DOMAIN csv_files
          /\ files[id] = NoFile
          /\ \A i \in 1..Len(impacts_csv) : impacts_csv[i].forklift_id # id

\* a malformed message and a message without id have both been rejected
C6_Witness ==
    \E w1, w2 \in Conns :
        /\ msg[w1].kind = "malformed" /\ pc[w1] = "done" /\ sock[w1] = "closed"
        /\ msg[w2].kind = "json" /\ MissingId(msg[w2].forklift_id)
        /\ pc[w2] = "done" /\ sock[w2] = "closed"

\* C7: a failure on one connection stays on that connection: the accept loop
\* keeps running, and every worker that carried a valid record and met no I/O
\* error of its own has appended the record's row when it ends.
C7_FailuresAreLocal ==
    /\ serverPc = "accept"
    /\ \A w \in Conns :
          (Valid(w) /\ pc[w] = "done" /\ "ioerror" \notin did[w])
          => /\ "append" \in did[w]
             /\ sock[w] = "closed"

\* the creation of a vehicle's log failed on one connection, and a later
\* connection of the same vehicle has appended its row
C7_Witness ==
    \E w1, w2 \in Conns :
        /\ w1 < w2
        /\ Valid(w1) /\ Valid(w2)
        /\ msg[w1].forklift_id = msg[w2].forklift_id
        /\ pc[w1] = "done" /\ "ioerror" \in did[w1] /\ "create" \notin did[w1]
        /\ pc[w2] = "done" /\ "append" \in did[w2]
        /\ InSeq(RowOf(msg[w2]), files[PathOf(msg[w2].forklift_id)].rows)

\* the readings of a set whose beacon id the geometry knows
KnownOnly(beacon_readings) ==
    [b \in DOMAIN beacon_readings \cap DOMAIN BEACON_POSITIONS |-> beacon_readings[b]]

\* worker w has called the estimator on the readings of its record
Estimated(w) == "estimate" \in did[w]

\* C8: for an empty reading set, and for one in which no beacon id is a known
\* beacon, the estimator returns "no estimate", never a coordinate.
C8_NoEstimateWithoutKnownBeacon ==
    \A w \in Conns :
        (Estimated(w) /\ DOMAIN KnownOnly(msg[w].beacon_readings) = {})
        => /\ est[w] = NoEstimate
           /\ ~processed[w].set

\* the estimator has been called on a reading of an unknown beacon alone, with a
\* signal strength, and has returned no estimate
C8_Witness ==
    \E w \in Conns :
        /\ Estimated(w)
        /\ DOMAIN msg[w].beacon_readings = {UnknownBeacon}
        /\ msg[w].beacon_readings[UnknownBeacon].rssi # NoRssi
        /\ ~est[w].ok

\* the four configured beacons are all read with one common signal strength
EqualOnAllFour(beacon_readings) ==
    /\ DOMAIN BEACON_POSITIONS \subseteq DOMAIN beacon_readings
    /\ \E r \in RssiValues :
          \A b \in DOMAIN BEACON_POSITIONS : beacon_readings[b].rssi = r

\* C9: with the same signal strength on the four configured beacons the estimate
\* is the centroid (12.5, 10) of the rectangle, whatever the common strength is.
C9_CentroidOfRectangle ==
    \A w \in Conns :
        (Estimated(w) /\ EqualOnAllFour(msg[w].beacon_readings))
        => /\ est[w].ok
           /\ 2 * est[w].x[1] = 25 * est[w].x[2]
           /\ est[w].y[1] = 10 * est[w].y[2]
           /\ processed[w] = [set |-> TRUE, x |-> 1250, y |-> 1000]

\* the estimator has been called on four equal readings of the strongest signal
\* and on nothing else
C9_Witness ==
    \E w \in Conns :
        /\ Estimated(w)
        /\ DOMAIN msg[w].beacon_readings = DOMAIN BEACON_POSITIONS
        /\ \A b \in DOMAIN BEACON_POSITIONS :
              msg[w].beacon_readings[b].rssi = 20 * MaxRssiStep - 100
        /\ est[w].ok

\* two estimates are the same result: both none, or equal as fractions
SameEstimate(e, f) ==
    /\ e.ok = f.ok
    /\ e.ok => /\ e.x[1] * f.x[2] = f.x[1] * e.x[2]
               /\ e.y[1] * f.y[2] = f.y[1] * e.y[2]

\* C10: a reading of an unknown beacon is ignored and nothing else: the estimate
\* of a reading set is the estimate of the set without its unknown-beacon
\* readings, and the record that carried the unknown reading is still appended
\* to the log of its vehicle (unless the open of the log fails).
C10_UnknownBeaconIgnored ==
    \A w \in Conns :
        /\ Estimated(w)
           => SameEstimate(est[w], process_indoor_position(KnownOnly(msg[w].beacon_readings)))
        /\ ( /\ Valid(w) /\ pc[w] = "done" /\ "ioerror" \notin did[w]
             /\ msg[w].has_beacon_readings
             /\ UnknownBeacon \in DOMAIN msg[w].beacon_readings )
           => /\ "append" \in did[w]
              /\ InSeq(RowOf(msg[w]), files[PathOf(msg[w].forklift_id)].rows)

\* a record with a reading of a known beacon and a stronger reading of an unknown
\* one has been estimated at the known beacon and appended to the log
C10_Witness ==
    \E w \in Conns :
        /\ Estimated(w) /\ pc[w] = "done" /\ "append" \in did[w]
        /\ DOMAIN msg[w].beacon_readings = {"beacon3", UnknownBeacon}
        /\ msg[w].beacon_readings["beacon3"].rssi = -100
        /\ msg[w].beacon_readings[UnknownBeacon].rssi = 20 * MaxRssiStep - 100
        /\ est[w] = Estimate(25, 20, 1)
        /\ InSeq(RowOf(msg[w]), files["FL-001"].rows)

\* the rows of a log that came from connection w
RowsFrom(w, rows) == {i \in 1..Len(rows) : rows[i].kind = "row" /\ rows[i].timestamp = w}

\* C11: the row appended for a record carries the position received in the
\* record, also when the estimator has produced a position for it, which is kept
\* as a separate field; for an outdoor record the estimator is not called and no
\* such field is attached.
C11_SuppliedPositionKept ==
    \A w \in Conns :
        /\ "append" \in did[w] =>
              /\ RowsFrom(w, files[PathOf(msg[w].forklift_id)].rows) # {}
              /\ \A i \in RowsFrom(w, files[PathOf(msg[w].forklift_id)].rows) :
                    LET row == files[PathOf(msg[w].forklift_id)].rows[i]
                    IN  /\ row.x_position = msg[w].position.x
                        /\ row.y_position = msg[w].position.y
              /\ Estimated(w) <=> (msg[w].environment = "indoor" /\ msg[w].has_beacon_readings)
        /\ processed[w].set =>
              /\ Estimated(w) /\ est[w].ok
              /\ processed[w].x = Round2(est[w].x) /\ processed[w].y = Round2(est[w].y)
        /\ msg[w].environment # "indoor" => ~Estimated(w) /\ ~processed[w].set

\* an indoor record whose estimate (12.5, 10) differs from the position it
\* carries has been appended with the position it carries
C11_Witness ==
    \E w \in Conns :
        /\ "append" \in did[w] /\ Estimated(w)
        /\ msg[w].position = DefaultPosition
        /\ processed[w] = [set |-> TRUE, x |-> 1250, y |-> 1000]
        /\ \E i \in RowsFrom(w, files["FL-001"].rows) :
              files["FL-001"].rows[i].x_position = 300

\* C20: within one vehicle's log the rows are in the order in which their
\* connections were accepted (the timestamp of a record is its arrival number).
C20_RowsInArrivalOrder ==
    \A f \in FileNames :
        \A i, j \in 1..Len(files[f].rows) :
            (i < j /\ files[f].rows[i].kind = "row" /\ files[f].rows[j].kind = "row")
            => files[f].rows[i].timestamp < files[f].rows[j].timestamp

(* ----------------------- simulator: _simulation_loop ------------------ *)

\* What the random draws and the clock of a run may give: draws.dt the seconds
\* between two ticks, draws.idle the outcomes of "random() < 0.15", draws.turn
\* the headings a change of direction may pick (none: the heading is never
\* changed), draws.accel the outcomes of "random() < 0.7", draws.hit those of
\* "random() < PROBABILITY_OF_IMPACT", draws.ticks the number of ticks of the run.

\* a stall of the process long enough to take the battery below 30 %
LongStall == 2600
\* a stall after which one step from the middle of the room crosses one wall
ShortStall == 8

Headings == {<<5, 0>>, <<-5, 0>>, <<0, 5>>, <<0, -5>>,
             <<3, 4>>, <<-3, 4>>, <<3, -4>>, <<-3, -4>>,
             <<4, 3>>, <<-4, 3>>, <<4, -3>>, <<-4, -3>>}

AnyDraws ==
    [dt |-> {1, ShortStall, LongStall}, idle |-> BOOLEAN, turn |-> {<<-3, -4>>, <<4, 3>>},
     accel |-> BOOLEAN, hit |-> BOOLEAN, ticks |-> MaxTicks]

\* a vehicle that speeds up straight on and may be hit in every tick
ImpactDraws ==
    [dt |-> {1}, idle |-> {FALSE}, turn |-> {}, accel |-> {TRUE}, hit |-> BOOLEAN,
     ticks |-> MaxImpactTicks]

\* the start of a tick in a loop that does not look at the flag
SimBattery_deaf(draws) ==
    /\ sim.pc = "battery"
    /\ sim.ticks < draws.ticks
    /\ sim' = [sim EXCEPT !.time_delta = 1, !.battery_level = Drain(@, 1),
                          !.tick = [x |-> sim.x, y |-> sim.y,
                                    battery_level |-> sim.battery_level,
                                    distance_traveled |-> sim.distance_traveled,
                                    charged |-> FALSE, impacts |-> Len(sim.impacts)],
                          !.pc = "decide"]
    /\ UNCHANGED <<telemetry, snd, conns>>
    /\ UNCHANGED listener

\* lines 105-122: the time since the last tick, the battery drain, and the
\* recharge near a charging station
SimBattery(draws) ==
    /\ sim.pc = "battery"
    /\ sim.running
    /\ sim.ticks < draws.ticks
    /\ \E dt \in draws.dt :
          LET drained == Drain(sim.battery_level, dt)
              charge  == drained < LowBattery /\ NearStation(sim.x, sim.y)
          IN  sim' = [sim EXCEPT
                  !.time_delta = dt,
                  !.battery_level = IF charge THEN Recharge(drained, dt) ELSE drained,
                  !.speed = IF charge THEN 0 ELSE @,
                  !.standing_still = IF charge THEN TRUE ELSE @,
                  !.tick = [x |-> sim.x, y |-> sim.y, battery_level |-> sim.battery_level,
                            distance_traveled |-> sim.distance_traveled,
                            charged |-> charge, impacts |-> Len(sim.impacts)],
                  !.pc = "decide"]
    /\ UNCHANGED <<telemetry, snd, conns>>
    /\ UNCHANGED listener

Accelerate_loose(speed, max_speed, dt) == Min(max_speed + 1, speed + ACCELERATION * dt)

\* min(self.max_speed, self.speed + ACCELERATION * time_delta)
Accelerate(speed, max_speed, dt) == Min(max_speed, speed + ACCELERATION * dt)

\* max(0, self.speed - ACCELERATION * time_delta)
Decelerate(speed, dt) == Max(0, speed - ACCELERATION * dt)

\* lines 124-140: standing still or moving, the change of heading, the speed
SimDecide(draws) ==
    /\ sim.pc = "decide"
    /\ \E idle \in draws.idle :
          IF idle
          THEN sim' = [sim EXCEPT
                  !.standing_still = TRUE,
                  !.speed = Decelerate(@, sim.time_delta),
                  !.pc = "move"]
          ELSE \E heading \in draws.turn \cup {sim.direction} :
               \E accel \in draws.accel :
                  sim' = [sim EXCEPT
                      !.standing_still = FALSE,
                      !.direction = heading,
                      !.speed = IF accel
                                THEN Accelerate(@, sim.max_speed, sim.time_delta)
                                ELSE Decelerate(@, sim.time_delta),
                      !.pc = "move"]
    /\ UNCHANGED <<telemetry, snd, conns>>
    /\ UNCHANGED listener

Reflect_about(d) == <<-d[1], -d[2]>>

\* math.pi - direction and 2 * math.pi - direction, on (5 cos, 5 sin)
ReflectX(d) == <<-d[1], d[2]>>
ReflectY(d) == <<d[1], -d[2]>>

\* lines 142-162: the projected position, the bounce, the position and the
\* distance travelled
SimMove ==
    /\ sim.pc = "move"
    /\ LET distance == sim.speed * sim.time_delta
           px == sim.x + distance * sim.direction[1]
           py == sim.y + distance * sim.direction[2]
           outx == px < 0 \/ px > sim.room_size[1]
           outy == py < 0 \/ py > sim.room_size[2]
           new_x == IF outx THEN Clamp(px, sim.room_size[1]) ELSE px
           new_y == IF outy THEN Clamp(py, sim.room_size[2]) ELSE py
           d1 == IF outx THEN ReflectX(sim.direction) ELSE sim.direction
           d2 == IF outy THEN ReflectY(d1) ELSE d1
       IN  sim' = [sim EXCEPT
               !.direction = d2,
               !.x = new_x, !.y = new_y,
               !.distance_traveled = @ + calculate_distance(sim.x, sim.y, new_x, new_y),
               !.pc = "stats"]
    /\ UNCHANGED <<telemetry, snd, conns>>
    /\ UNCHANGED listener

\* lines 164-170: the speed statistics
SimStats ==
    /\ sim.pc = "stats"
    /\ sim' = [sim EXCEPT
           !.max_recorded_speed = Max(@, sim.speed),
           !.speed_readings = LastN(Append(@, sim.speed), SpeedWindow),
           !.pc = "impact"]
    /\ UNCHANGED <<telemetry, snd, conns>>
    /\ UNCHANGED listener

\* lines 172-183: the impact event, and the end of the tick; the time of an
\* impact is the number of its tick
SimImpact(draws) ==
    /\ sim.pc = "impact"
    /\ \E hit \in draws.hit :
          sim' = [sim EXCEPT
              !.impacts = IF ~sim.standing_still /\ hit
                          THEN Append(@, [timestamp |-> sim.ticks + 1, magnitude |-> 2,
                                          position |-> <<sim.x, sim.y>>])
                          ELSE @,
              !.ticks = @ + 1,
              !.pc = "battery"]
    /\ UNCHANGED <<telemetry, snd, conns>>
    /\ UNCHANGED listener

_simulation_loop(draws) ==
    \/ SimBattery(draws)
    \/ SimDecide(draws)
    \/ SimMove
    \/ SimStats
    \/ SimImpact(draws)

\* the simulators a run may construct: either environment, a position next to
\* the charging station at (2, 2) or in the middle of the room, two headings, a
\* battery at 50 % or full
NewSimulators ==
    {NewSimulator("FL-001", env, xy[1], xy[2], d, b) :
        env \in {"indoor", "outdoor"},
        xy \in {<<2 * PosUnitsPerMeter, 2 * PosUnitsPerMeter>>,
                <<12 * PosUnitsPerMeter, 10 * PosUnitsPerMeter>>},
        d \in {<<-3, -4>>, <<5, 0>>},
        b \in {50 * BatteryUnitsPerPercent, FullBattery}}

\* the listener before its first connection
ListenerInit ==
    /\ serverPc = "accept"
    /\ accepted = 0
    /\ msg = [w \in Conns |-> EmptyMsg]
    /\ sock = [w \in Conns |-> "none"]
    /\ pc = [w \in Conns |-> "none"]
    /\ est = [w \in Conns |-> NoEstimate]
    /\ processed = [w \in Conns |-> NoProcessed]
    /\ csv_files = [i \in {} |-> BadPath]
    /\ files = [f \in FileNames |-> NoFile]
    /\ impacts_csv = <<ImpactsHeader>>
    /\ did = [w \in Conns |-> {}]

\* one simulator and its thread, under any draws
InitSim ==
    /\ ListenerInit
    /\ sim \in NewSimulators
    /\ telemetry = EmptyMsg
    /\ snd = NewSender
    /\ conns = <<>>

NextSim == _simulation_loop(AnyDraws)

SpecSim == InitSim /\ [][NextSim]_vars

(* ------------------------ simulator: get_telemetry -------------------- *)

\* The numbers of a record are in hundredths: a coordinate of the simulator is
\* CmPerPosUnit hundredths of a metre, a speed CmPerSpeedUnit hundredths of a m/s.
CmPerPosUnit == 100 \div PosUnitsPerMeter
CmPerSpeedUnit == 100 \div SpeedUnitsPerMps

\* the beacons of the simulator, in its coordinates
BEACON_POSITIONS_simulator ==
    [b \in {"beacon1", "beacon2", "beacon3", "beacon4"} |->
        CASE b = "beacon1" -> <<0, 0>>
          [] b = "beacon2" -> <<25 * PosUnitsPerMeter, 0>>
          [] b = "beacon3" -> <<25 * PosUnitsPerMeter, 20 * PosUnitsPerMeter>>
          [] b = "beacon4" -> <<0, 20 * PosUnitsPerMeter>>]

\* round(calculate_distance(x, y, bx, by), 2), in hundredths
RoundedDistance(x, y, bx, by) ==
    RoundSqrt(CmPerPosUnit * CmPerPosUnit * Distance2(x, y, bx, by))

\* calculate_rssi_from_distance: the signal strength at 1 m for a distance of 0,
\* else the ideal value plus Gaussian noise, rounded: any integer, here drawn
calculate_rssi_from_distance(distance, drawn) ==
    IF distance <= 0 THEN RSSI_AT_1M ELSE drawn

RECURSIVE SumSeq(_)
SumSeq(s) == IF s = <<>> THEN 0 ELSE Head(s) + SumSeq(Tail(s))

\* round(get_average_speed(), 2), in hundredths
get_average_speed(s) ==
    IF s.speed_readings = <<>> THEN 0
    ELSE Round2(<<SumSeq(s.speed_readings), SpeedUnitsPerMps * Len(s.speed_readings)>>)

\* an impact as a record carries it: the position is the pair of coordinates
ImpactOf(i) ==
    [timestamp |-> i.timestamp, magnitude |-> i.magnitude,
     position |-> <<CmPerPosUnit * i.position[1], CmPerPosUnit * i.position[2]>>]

\* get_telemetry at time now; noise is the rounded position noise of get_position
\* and rssi the drawn signal strength of each beacon
get_telemetry(s, now, noise, rssi) ==
    [kind |-> "json", timestamp |-> now, forklift_id |-> s.forklift_id,
     environment |-> s.environment,
     position |-> [x |-> CmPerPosUnit * s.x + noise[1], y |-> CmPerPosUnit * s.y + noise[2]],
     speed |-> CmPerSpeedUnit * s.speed,
     max_speed |-> CmPerSpeedUnit * s.max_recorded_speed,
     avg_speed |-> get_average_speed(s),
     distance_traveled |-> CmPerPosUnit * s.distance_traveled,
     battery_level |-> s.battery_level,
     standing_still |-> s.standing_still,
     has_beacon_readings |-> TRUE,
     beacon_readings |->
         IF s.environment = "indoor"
         THEN [b \in DOMAIN BEACON_POSITIONS_simulator |->
                  LET pos == BEACON_POSITIONS_simulator[b]
                  IN  [distance |-> RoundedDistance(s.x, s.y, pos[1], pos[2]),
                       rssi |-> calculate_rssi_from_distance(
                                    Distance2(s.x, s.y, pos[1], pos[2]), rssi[b])]]
         ELSE NoReadings,
     impacts |-> LET recent == RecentImpacts(s.impacts)
                 IN  [i \in 1..Len(recent) |-> ImpactOf(recent[i])]]

\* what the draws of a snapshot may give: position noise and signal strengths
NoiseDraws == {<<0, 0>>, <<-150, 37>>}
RssiDraws == {[b \in DOMAIN BEACON_POSITIONS_simulator |-> -80]}

\* a snapshot taken while the simulation thread is anywhere in its loop; the time
\* of the snapshot is the number of ticks completed
TakeSnapshot ==
    /\ \E noise \in NoiseDraws, rssi \in RssiDraws :
          telemetry' = get_telemetry(sim, sim.ticks, noise, rssi)
    /\ UNCHANGED sim
    /\ UNCHANGED sender
    /\ UNCHANGED listener

\* an indoor vehicle that collects impacts, and the snapshots of it
InitTel ==
    /\ ListenerInit
    /\ sim = NewSimulator("FL-001", "indoor", 12 * PosUnitsPerMeter, 10 * PosUnitsPerMeter,
                          <<4, 3>>, FullBattery)
    /\ telemetry = EmptyMsg
    /\ snd = NewSender
    /\ conns = <<>>

NextTel ==
    \/ _simulation_loop(ImpactDraws)
    \/ TakeSnapshot

SpecTel == InitTel /\ [][NextTel]_vars

(* ------------------------------ the wire ------------------------------ *)

\* json.dumps(data).encode(): the members of the object in the order get_telemetry
\* builds them, and the number of bytes of the text. A number keeps its value
\* (repr and float round-trip), a tuple becomes an array of the same items.
Member(k, v) == [key |-> k, value |-> v]

\* upper bounds on the bytes of a record: the object without readings and impacts
\* (every number taken as long as a float can print), one reading, one impact
JsonBaseBytes == 436
JsonReadingBytes == 66
JsonImpactBytes == 150

JsonSize(data) ==
    JsonBaseBytes + JsonReadingBytes * Cardinality(DOMAIN data.beacon_readings)
                  + JsonImpactBytes * Len(data.impacts)

json_dumps(data) ==
    [members |-> <<Member("timestamp", data.timestamp),
                   Member("forklift_id", data.forklift_id),
                   Member("environment", data.environment),
                   Member("position", data.position),
                   Member("speed", data.speed),
                   Member("max_speed", data.max_speed),
                   Member("avg_speed", data.avg_speed),
                   Member("distance_traveled", data.distance_traveled),
                   Member("battery_level", data.battery_level),
                   Member("standing_still", data.standing_still),
                   Member("beacon_readings", data.beacon_readings),
                   Member("impacts", data.impacts)>>,
     size |-> JsonSize(data)]

NoText == [members |-> <<>>, size |-> 0]

Has(text, k) == \E i \in DOMAIN text.members : text.members[i].key = k
Get(text, k) ==
    text.members[CHOOSE i \in DOMAIN text.members : text.members[i].key = k].value

\* client_socket.recv(4096)
RecvBuffer_small == 4096 \div 4

RecvBuffer == 4096

\* what handle_client has after recv and json.loads when received bytes of the
\* text have been read: nothing, a parse error (a proper prefix of an object is
\* not an object), or the object with the keys the listener looks up
json_loads(text, received) ==
    IF received = 0 THEN EmptyMsg
    ELSE IF received < text.size THEN MalformedMsg
    ELSE [kind |-> "json",
          timestamp |-> Get(text, "timestamp"),
          forklift_id |-> IF Has(text, "forklift_id") THEN Get(text, "forklift_id")
                          ELSE NoneId,
          environment |-> Get(text, "environment"),
          position |-> IF Has(text, "position") THEN Get(text, "position")
                       ELSE DefaultPosition,
          speed |-> Get(text, "speed"),
          max_speed |-> Get(text, "max_speed"),
          avg_speed |-> Get(text, "avg_speed"),
          distance_traveled |-> Get(text, "distance_traveled"),
          battery_level |-> Get(text, "battery_level"),
          standing_still |-> Get(text, "standing_still"),
          has_beacon_readings |-> Has(text, "beacon_readings"),
          beacon_readings |-> IF Has(text, "beacon_readings")
                              THEN Get(text, "beacon_readings") ELSE NoReadings,
          impacts |-> IF Has(text, "impacts") THEN Get(text, "impacts") ELSE <<>>]

(* --------------------------- TelemetrySender -------------------------- *)

\* a socket of _send_data_to_server: state "open" until close() or the runtime
\* closes it; failed when connect or sendall raised; data is the record given to json.dumps, wire its text, sent the bytes
\* handed to the network; worker is the listener's worker of the connection (0:
\* none yet) and arrived the bytes its recv found
NewSocket(iteration, connected) ==
    [iteration |-> iteration, state |-> "open", connected |-> connected,
     failed |-> ~connected, data |-> EmptyMsg, wire |-> NoText, sent |-> 0, worker |-> 0, arrived |-> 0]

\* where _sender_loop goes on after _send_data_to_server caught a failure
AfterSendFailure_retry == "connect"

AfterSendFailure == "sleep"

\* while self.running
LoopTest ==
    /\ snd.pc = "loop"
    /\ snd.running
    /\ snd.iteration < MaxSnapshots
    /\ snd' = [snd EXCEPT !.iteration = @ + 1, !.pc = "snapshot"]
    /\ UNCHANGED <<sim, telemetry, conns>>
    /\ UNCHANGED listener

\* telemetry = self.forklift.get_telemetry(), with a position noise that is not 0
SenderSnapshot ==
    /\ snd.pc = "snapshot"
    /\ \E noise \in NoiseDraws \ {<<0, 0>>}, rssi \in RssiDraws :
          telemetry' = get_telemetry(sim, snd.now, noise, rssi)
    /\ snd' = [snd EXCEPT !.taken = @ + 1, !.pc = "connect"]
    /\ UNCHANGED <<sim, conns>>
    /\ UNCHANGED listener

\* socket.socket(...) and sock.connect(...)
Connect ==
    /\ snd.pc = "connect"
    /\ conns' = Append(conns, NewSocket(snd.iteration, TRUE))
    /\ snd' = [snd EXCEPT
           !.attempts = Append(@, [iteration |-> snd.iteration,
                                   timestamp |-> telemetry.timestamp]),
           !.pc = "sendall"]
    /\ UNCHANGED <<sim, telemetry>>
    /\ UNCHANGED listener

\* sock.connect raises: the except clause prints, close() is not reached
ConnectError ==
    /\ snd.pc = "connect"
    /\ conns' = Append(conns, NewSocket(snd.iteration, FALSE))
    /\ snd' = [snd EXCEPT
           !.attempts = Append(@, [iteration |-> snd.iteration,
                                   timestamp |-> telemetry.timestamp]),
           !.pc = AfterSendFailure]
    /\ UNCHANGED <<sim, telemetry>>
    /\ UNCHANGED listener

\* sock.sendall(json.dumps(data).encode())
SendAll ==
    /\ snd.pc = "sendall"
    /\ LET text == json_dumps(telemetry)
       IN  conns' = [conns EXCEPT ![Len(conns)] =
                        [@ EXCEPT !.data = telemetry, !.wire = text, !.sent = text.size]]
    /\ snd' = [snd EXCEPT !.pc = "close"]
    /\ UNCHANGED <<sim, telemetry>>
    /\ UNCHANGED listener

\* sock.sendall raises after none or a part of the bytes: close() is not reached
SendAllError ==
    /\ snd.pc = "sendall"
    /\ LET text == json_dumps(telemetry)
       IN  \E n \in {0, text.size \div 2} :
              conns' = [conns EXCEPT ![Len(conns)] =
                           [@ EXCEPT !.data = telemetry, !.wire = text, !.sent = n,
                                     !.failed = TRUE]]
    /\ snd' = [snd EXCEPT !.pc = AfterSendFailure]
    /\ UNCHANGED <<sim, telemetry>>
    /\ UNCHANGED listener

\* sock.close()
Close ==
    /\ snd.pc = "close"
    /\ conns' = [conns EXCEPT ![Len(conns)] = [@ EXCEPT !.state = "closed"]]
    /\ snd' = [snd EXCEPT !.pc = "sleep"]
    /\ UNCHANGED <<sim, telemetry>>
    /\ UNCHANGED listener

\* the summary line and time.sleep(self.update_interval)
Sleep ==
    /\ snd.pc = "sleep"
    /\ snd' = [snd EXCEPT !.now = @ + 1, !.pc = "loop"]
    /\ UNCHANGED <<sim, telemetry, conns>>
    /\ UNCHANGED listener

\* _send_data_to_server has returned without close(): the runtime closes the
\* socket when it collects the object, at a time the program does not choose
Finalize(k) ==
    /\ conns[k].state = "open"
    /\ k < Len(conns) \/ snd.pc \in {"sleep", "loop", "snapshot", "connect"}
    /\ conns' = [conns EXCEPT ![k] = [@ EXCEPT !.state = "closed"]]
    /\ UNCHANGED <<sim, telemetry, snd>>
    /\ UNCHANGED listener

_sender_loop ==
    \/ LoopTest
    \/ SenderSnapshot
    \/ Connect
    \/ ConnectError
    \/ SendAll
    \/ SendAllError
    \/ Close
    \/ Sleep

\* start_server accepts a connection of the sender and the worker's recv returns:
\* it finds the bytes sent, or a first part of them, and at most RecvBuffer
accept_sender ==
    /\ serverPc = "accept"
    /\ accepted < Min(MaxConn, MaxDeliveries)
    /\ \E k \in DOMAIN conns :
          /\ conns[k].connected
          /\ conns[k].worker = 0
          /\ conns[k].wire # NoText
          /\ conns[k].sent > 0 \/ conns[k].state = "closed"
          /\ \E arrived \in {conns[k].sent, conns[k].sent \div 2} :
                /\ msg' = [msg EXCEPT ![accepted + 1] =
                              json_loads(conns[k].wire, Min(arrived, RecvBuffer))]
                /\ conns' = [conns EXCEPT ![k] =
                                [@ EXCEPT !.worker = accepted + 1, !.arrived = arrived]]
    /\ accepted' = accepted + 1
    /\ sock' = [sock EXCEPT ![accepted + 1] = "open"]
    /\ pc' = [pc EXCEPT ![accepted + 1] = "recv"]
    /\ UNCHANGED <<serverPc, est, processed, csv_files, files, impacts_csv, did>>
    /\ UNCHANGED <<sim, telemetry, snd>>

\* the simulator of InitTel after six ticks that each accelerated and were hit
SeasonedSimulator ==
    [NewSimulator("FL-001", "indoor", 12 * PosUnitsPerMeter, 10 * PosUnitsPerMeter,
                  <<4, 3>>, FullBattery) EXCEPT
        !.x = 384, !.y = 313, !.speed = 6, !.distance_traveled = 105,
        !.battery_level = FullBattery - 6, !.max_recorded_speed = 6,
        !.speed_readings = <<1, 2, 3, 4, 5, 6>>, !.time_delta = 1, !.ticks = 6,
        !.impacts = <<[timestamp |-> 1, magnitude |-> 2, position |-> <<304, 253>>],
                      [timestamp |-> 2, magnitude |-> 2, position |-> <<312, 259>>],
                      [timestamp |-> 3, magnitude |-> 2, position |-> <<324, 268>>],
                      [timestamp |-> 4, magnitude |-> 2, position |-> <<340, 280>>],
                      [timestamp |-> 5, magnitude |-> 2, position |-> <<360, 295>>],
                      [timestamp |-> 6, magnitude |-> 2, position |-> <<384, 313>>]>>,
        !.tick = [x |-> 360, y |-> 295, battery_level |-> FullBattery - 5,
                  distance_traveled |-> 75, charged |-> FALSE, impacts |-> 5]]

\* the simulators whose snapshots are sent: a new indoor one, the indoor one with
\* six impacts, a new outdoor one
SendSimulators ==
    {IdleSimulator, SeasonedSimulator,
     NewSimulator("FL-002", "outdoor", 2 * PosUnitsPerMeter, 2 * PosUnitsPerMeter,
                  <<5, 0>>, FullBattery)}

\* One sender, the network and the listener. The simulation thread shares only
\* sim with the sender, which reads it in get_telemetry alone, so the state of the
\* simulator at the snapshots is drawn once and its ticks are left out.
InitSend ==
    /\ ListenerInit
    /\ sim \in SendSimulators
    /\ telemetry = EmptyMsg
    /\ snd = NewSender
    /\ conns = <<>>

NextSend ==
    \/ _sender_loop
    \/ \E k \in DOMAIN conns : Finalize(k)
    \/ accept_sender
    \/ \E w \in Conns : handle_client(w)

SpecSend == InitSend /\ [][NextSend]_vars

(* -------------------------------- stop() ------------------------------ *)

\* a vehicle that speeds up straight on, or idles, one second per tick
StopDraws ==
    [dt |-> {1}, idle |-> BOOLEAN, turn |-> {}, accel |-> {TRUE}, hit |-> {FALSE},
     ticks |-> MaxTicks]

\* ForkliftSimulator._simulation_loop: 'while self.running' finds the flag cleared
\* and the thread ends
SimExit ==
    /\ sim.pc = "battery"
    /\ ~sim.running
    /\ sim' = [sim EXCEPT !.pc = "exited"]
    /\ UNCHANGED <<telemetry, snd, conns>>
    /\ UNCHANGED listener

\* ForkliftSimulator.stop: self.running = False
SimStopSet ==
    /\ sim.stop = "none"
    /\ sim' = [sim EXCEPT !.running = FALSE, !.stop = "join",
                          !.stopped_at = [ticks |-> sim.ticks, pc |-> sim.pc]]
    /\ UNCHANGED <<telemetry, snd, conns>>
    /\ UNCHANGED listener

\* ForkliftSimulator.stop: the thread has ended, or join(timeout=1.0) returns,
\* when the thread ends or when the second is over
SimStopJoin ==
    /\ sim.stop = "join"
    /\ sim' = [sim EXCEPT !.stop = "returned"]
    /\ UNCHANGED <<telemetry, snd, conns>>
    /\ UNCHANGED listener

ForkliftSimulator_stop ==
    \/ SimStopSet
    \/ SimStopJoin

\* TelemetrySender._sender_loop: 'while self.running' finds the flag cleared and
\* the thread ends
LoopExit ==
    /\ snd.pc = "loop"
    /\ ~snd.running
    /\ snd' = [snd EXCEPT !.pc = "exited"]
    /\ UNCHANGED <<sim, telemetry, conns>>
    /\ UNCHANGED listener

\* TelemetrySender.stop: self.running = False
SenderStopSet ==
    /\ snd.stop = "none"
    /\ snd' = [snd EXCEPT !.running = FALSE, !.stop = "join",
                          !.stopped_at = [iteration |-> snd.iteration, pc |-> snd.pc]]
    /\ UNCHANGED <<sim, telemetry, conns>>
    /\ UNCHANGED listener

\* TelemetrySender.stop: the thread has ended, or join(timeout=1.0) returns
SenderStopJoin ==
    /\ snd.stop = "join"
    /\ snd' = [snd EXCEPT !.stop = "returned"]
    /\ UNCHANGED <<sim, telemetry, conns>>
    /\ UNCHANGED listener

TelemetrySender_stop ==
    \/ SenderStopSet
    \/ SenderStopJoin

\* a simulator and a sender that were stopped before their loops did anything
StoppedSimulator ==
    [NewSimulator("FL-001", "indoor", 12 * PosUnitsPerMeter, 10 * PosUnitsPerMeter,
                  <<4, 3>>, FullBattery) EXCEPT
        !.running = FALSE, !.pc = "exited", !.stop = "returned"]
StoppedSender ==
    [NewSender EXCEPT !.running = FALSE, !.pc = "exited", !.stop = "returned"]

\* One simulator and its sender, stopped at any time by the main thread. The two
\* loops share only sim, which the sender reads in get_telemetry and which decides
\* nothing in its loop, so each loop is followed next to a partner that has
\* already been stopped.
InitStop ==
    /\ ListenerInit
    /\ \/ /\ sim = NewSimulator("FL-001", "indoor", 12 * PosUnitsPerMeter,
                                 10 * PosUnitsPerMeter, <<4, 3>>, FullBattery)
          /\ snd = StoppedSender
       \/ /\ sim = StoppedSimulator
          /\ snd = NewSender
    /\ telemetry = EmptyMsg
    /\ conns = <<>>

SimThread == _simulation_loop(StopDraws) \/ SimExit
SenderThread == _sender_loop \/ LoopExit

NextStop ==
    \/ SimThread
    \/ SenderThread
    \/ ForkliftSimulator_stop
    \/ TelemetrySender_stop

\* Both threads keep being scheduled and every statement of their loops ends
\* (sleep returns, connect and sendall return or raise); join(timeout=1.0) returns.
\* Nothing obliges the main thread to call stop().
SpecStop ==
    /\ InitStop
    /\ [][NextStop]_vars
    /\ WF_vars(SimThread)
    /\ WF_vars(SenderThread)
    /\ WF_vars(SimStopJoin)
    /\ WF_vars(SenderStopJoin)

(* ------------------------ claims on the simulator --------------------- *)

\* a tick of the loop has just ended
TickEnded == sim.pc = "battery" /\ sim.ticks > 0

\* C12: the true position of the vehicle is inside the rectangle
\* [0, W] x [0, H] of its environment, at construction and after any number of
\* ticks.
C12_PositionInsideRectangle ==
    /\ 0 <= sim.x /\ sim.x <= ENVIRONMENT_SIZE[sim.environment][1]
    /\ 0 <= sim.y /\ sim.y <= ENVIRONMENT_SIZE[sim.environment][2]

\* a tick whose projected position was beyond the far wall ended on the wall
C12_Witness ==
    /\ TickEnded
    /\ sim.x = ENVIRONMENT_SIZE[sim.environment][1]
    /\ sim.tick.x < sim.x

\* C13: battery_level is within [0, 100] at construction and after every tick,
\* whatever drain and recharge steps occur.
C13_BatteryInRange ==
    0 <= sim.battery_level /\ sim.battery_level <= FullBattery

\* a tick recharged the battery up to the limit
C13_Witness ==
    /\ TickEnded
    /\ sim.tick.charged
    /\ sim.tick.battery_level < LowBattery
    /\ sim.battery_level = FullBattery

\* C14: distance_traveled never decreases: no step of the loop, in a tick that
\* bounces, idles or charges, makes it smaller than it was.
C14_DistanceNonDecreasing ==
    [][sim'.distance_traveled >= sim.distance_traveled]_vars

\* a tick that bounced off the wall x = 0 has added its step to the distance
C14_Witness ==
    /\ TickEnded
    /\ sim.x = 0
    /\ sim.tick.x > 0
    /\ sim.distance_traveled > sim.tick.distance_traveled

\* C15: an indoor vehicle that starts a tick with its battery below 30 % and
\* within 3 units of a charging station ends the tick standing still, with
\* speed 0 and a higher battery, whatever the random draws.
C15_ChargingTakesPrecedence ==
    (/\ TickEnded
     /\ sim.environment = "indoor"
     /\ sim.tick.battery_level < LowBattery
     /\ NearStation(sim.tick.x, sim.tick.y))
    => /\ sim.standing_still
       /\ sim.speed = 0
       /\ sim.battery_level > sim.tick.battery_level


\* the impacts the simulator had generated when the snapshot was taken
KnownAt(now) == SelectSeq(sim.impacts, LAMBDA i : i.timestamp <= now)

\* C16: the impact list of a snapshot has at most 5 entries, oldest first: the
\* timestamps increase along the list and its last entry is the most recent
\* impact generated before the snapshot, however many impacts there were.
C16_SnapshotImpacts ==
    telemetry.kind = "json" =>
        LET shown == telemetry.impacts
            known == KnownAt(telemetry.timestamp)
        IN  /\ Len(shown) <= ImpactWindow
            /\ \A i, j \in 1..Len(shown) :
                   i < j => shown[i].timestamp < shown[j].timestamp
            /\ known # <<>> =>
                   /\ shown # <<>>
                   /\ shown[Len(shown)].timestamp = known[Len(known)].timestamp

\* a snapshot taken after more than 5 impacts
C16_Witness ==
    /\ telemetry.kind = "json"
    /\ Len(KnownAt(telemetry.timestamp)) > ImpactWindow
    /\ Len(telemetry.impacts) = ImpactWindow


(* ------------------------- claims on the sender ----------------------- *)

\* C17: delivery is at most once: every iteration of the sender loop takes
\* exactly one snapshot and begins at most one send of it; after a failed send
\* the sender goes on, and the next send is that of a later iteration and of a
\* new snapshot, never of the one that failed.
C17_AtMostOnce ==
    /\ snd.taken = (IF snd.pc = "snapshot" THEN snd.iteration - 1 ELSE snd.iteration)
    /\ Len(snd.attempts) <= snd.taken
    /\ \A i, j \in DOMAIN snd.attempts :
           i < j => /\ snd.attempts[i].iteration < snd.attempts[j].iteration
                    /\ snd.attempts[i].timestamp < snd.attempts[j].timestamp
    /\ \A k \in DOMAIN conns :
           conns[k].failed /\ k = Len(conns) /\ snd.pc \in {"connect", "sendall", "close"}
               => snd.iteration > conns[k].iteration

\* the first send failed and the second iteration has sent its own snapshot
C17_Witness ==
    /\ Len(conns) = 2
    /\ conns[1].failed
    /\ conns[2].sent = conns[2].wire.size
    /\ conns[2].sent > 0
    /\ conns[2].data.timestamp > snd.attempts[1].timestamp

\* C18: a connection the transmitter has opened is closed before the next
\* delivery starts, also when its connect or send failed, so that the
\* transmitter never holds more than one open connection.
C18_ClosedBeforeNextDelivery ==
    /\ \A k \in DOMAIN conns :
           conns[k].connected /\ k < Len(conns) => conns[k].state = "closed"
    /\ Cardinality({k \in DOMAIN conns : conns[k].connected /\ conns[k].state = "open"}) <= 1

Parsed(c) == c.worker # 0 /\ c.arrived = c.wire.size /\ c.arrived > 0

\* C21: a snapshot of an outdoor vehicle carries no beacon reading, a snapshot
\* of an indoor vehicle exactly one reading for each configured beacon, and the
\* listener never calls the estimator for the record of an outdoor vehicle.
C21_ReadingsByEnvironment ==
    /\ telemetry.kind = "json" =>
          DOMAIN telemetry.beacon_readings =
              (IF sim.environment = "indoor" THEN DOMAIN BEACON_POSITIONS_simulator ELSE {})
    /\ \A k \in DOMAIN conns :
          Parsed(conns[k]) /\ sim.environment = "outdoor"
              => "estimate" \notin did[conns[k].worker]

\* the record of an outdoor vehicle has gone past the estimator and into the log
C21_Witness ==
    /\ sim.environment = "outdoor"
    /\ \E k \in DOMAIN conns :
          /\ Parsed(conns[k])
          /\ conns[k].data.beacon_readings = NoReadings
          /\ "append" \in did[conns[k].worker]


(* ----------------------- more claims on the loop ---------------------- *)

\* the stations named for an environment
StationsOf(env) ==
    IF env = "indoor" THEN {"indoor_charge1", "indoor_charge2"}
    ELSE {"outdoor_charge1", "outdoor_charge2"}

\* C22: a tick takes the charging branch only when the battery is below 30 % and
\* the vehicle is within 3 units of a charging station of its own environment;
\* a station of the other environment never triggers charging.
C22_ChargingMatchesEnvironment ==
    sim.tick.charged =>
        /\ Drain(sim.tick.battery_level, sim.time_delta) < LowBattery
        /\ \E c \in StationsOf(sim.environment) :
               Distance2(sim.tick.x, sim.tick.y,
                         CHARGING_STATIONS[c][1], CHARGING_STATIONS[c][2])
                   < ChargeRadius * ChargeRadius


\* C23: the simulator retains only the 5 most recent impacts: its stored impact
\* list never has more than 5 entries, however many impacts were generated.
C23_StoredImpactsBounded ==
    Len(sim.impacts) <= ImpactWindow


\* C24: an impact is generated only while the vehicle is moving: a tick that
\* ends standing still (idle or charging) or with speed 0 adds no impact.
C24_ImpactOnlyWhileMoving ==
    (TickEnded /\ Len(sim.impacts) > sim.tick.impacts)
        => ~sim.standing_still /\ sim.speed > 0


\* the max speed of an environment
MaxSpeedOf(env) == IF env = "indoor" THEN MAX_SPEED_INDOOR ELSE MAX_SPEED_OUTDOOR

\* C25: 0 <= speed <= the max speed of the environment, at construction and
\* after every tick, whatever the idle, accelerate, decelerate and charging steps.
C25_SpeedInRange ==
    0 <= sim.speed /\ sim.speed <= MaxSpeedOf(sim.environment)

\* a tick after a long stall accelerated up to the max speed, and the one
\* before it had decelerated down to 0
C25_Witness ==
    /\ TickEnded
    /\ sim.time_delta = LongStall
    /\ ~sim.standing_still
    /\ sim.speed = MaxSpeedOf(sim.environment)
    /\ sim.speed_readings = <<0, sim.speed>>


\* what a bounce of a move does on one axis: from coordinate v with heading
\* component h, a projected coordinate p outside [0, size] ends on the wall it
\* crossed with the component reversed and pointing back inside; a projected
\* coordinate inside is taken as it is and the component kept
Bounced(p, size, h, v2, h2) ==
    /\ p < 0 => v2 = 0 /\ h2 = -h /\ h2 > 0
    /\ p > size => v2 = size /\ h2 = -h /\ h2 < 0
    /\ (0 <= p /\ p <= size) => v2 = p /\ h2 = h

\* C26: bounce, not wrap: a move whose projected position leaves the rectangle on
\* an axis ends on the wall crossed, with the heading component normal to that
\* wall reversed (so the next move leads away from it) and the other component
\* unchanged unless its own axis was left too; a move that stays inside neither
\* reflects the heading nor clamps the position.
C26_BounceNotWrap ==
    [][sim.pc = "move" =>
          LET step == sim.speed * sim.time_delta
          IN  /\ Bounced(sim.x + step * sim.direction[1], sim.room_size[1],
                         sim.direction[1], sim'.x, sim'.direction[1])
              /\ Bounced(sim.y + step * sim.direction[2], sim.room_size[2],
                         sim.direction[2], sim'.y, sim'.direction[2])]_vars

\* a move from the middle of the room has crossed the wall y = 0 alone and goes
\* on with the same component along x
C26_Witness ==
    /\ sim.pc = "stats"
    /\ sim.y = 0
    /\ sim.tick.y > 0
    /\ 0 < sim.x /\ sim.x < sim.tick.x
    /\ sim.direction = <<-3, 4>>


(* ----------------------- more claims on the listener ------------------ *)

C28_OneReadThenClosed ==
    /\ [](\A w \in Conns :
              /\ pc[w] = "done" => sock[w] = "closed"
              /\ sock[w] = "open" => pc[w] \notin {"none", "done"}
              /\ w > accepted => pc[w] = "none" /\ sock[w] = "none"
              /\ \A f \in FileNames : Cardinality(RowsFrom(w, files[f].rows)) <= 1)
    /\ [][\A w \in Conns :
              /\ pc'[w] = "recv" => pc[w] \in {"none", "recv"}
              /\ pc[w] = "done" => pc'[w] = "done" /\ sock'[w] = "closed"]_vars

\* one worker has ended on a rejected read and the other after a failed open,
\* both with their connection closed
C28_Witness ==
    /\ pc = <<"done", "done">>
    /\ sock = <<"closed", "closed">>
    /\ "rejected" \in did[1]
    /\ "ioerror" \in did[2]


\* the rows of impacts.csv that record the impact of vehicle id with timestamp t
RowsOfImpact(id, t) ==
    {i \in DOMAIN impacts_csv :
        /\ impacts_csv[i].kind = "row"
        /\ impacts_csv[i].forklift_id = id
        /\ impacts_csv[i].timestamp = t}

\* the workers that wrote the impacts of a record of vehicle id carrying impact t
CarriersOfImpact(id, t) ==
    {w \in 1..MaxConn :
        /\ "impacts" \in did[w]
        /\ msg[w].forklift_id = id
        /\ \E j \in DOMAIN msg[w].impacts : msg[w].impacts[j].timestamp = t}

\* C29: the listener does not de-duplicate impacts: an impact event carried by k
\* ingested records of a vehicle has k rows in the impacts log, one appended for
\* each record whose impacts were written.
C29_NoDeduplication ==
    \A id \in ForkliftIds, t \in 1..MaxImpacts :
        Cardinality(RowsOfImpact(id, t)) = Cardinality(CarriersOfImpact(id, t))

\* two records of one vehicle carried the same impact, and the log has it twice
C29_Witness ==
    \E t \in 1..MaxImpacts :
        /\ Cardinality(CarriersOfImpact("FL-001", t)) = 2
        /\ Cardinality(RowsOfImpact("FL-001", t)) = 2


\* C29, the simulator's side: a snapshot carries an impact exactly while fewer
\* than 5 newer impacts have been generated, so every snapshot taken until then
\* sends it again (checked under SpecTel).
C29_ResentUntilFiveNewer ==
    telemetry.kind = "json" =>
        LET known == KnownAt(telemetry.timestamp)
        IN  \A i \in 1..Len(known) :
                (\E j \in DOMAIN telemetry.impacts :
                     telemetry.impacts[j].timestamp = known[i].timestamp)
                <=> Len(known) - i < ImpactWindow


\* the snapshot shows the battery, distance, impacts and true position of state b
SnapshotOf(b) ==
    /\ telemetry.battery_level = b.battery_level
    /\ telemetry.distance_traveled = CmPerPosUnit * b.distance_traveled
    /\ Len(telemetry.impacts) = Min(b.impacts, ImpactWindow)
    /\ \E noise \in NoiseDraws :
          /\ telemetry.position.x = CmPerPosUnit * b.x + noise[1]
          /\ telemetry.position.y = CmPerPosUnit * b.y + noise[2]
    /\ \A bc \in DOMAIN telemetry.beacon_readings :
          LET pos == BEACON_POSITIONS_simulator[bc]
          IN  telemetry.beacon_readings[bc].distance =
                  RoundedDistance(b.x, b.y, pos[1], pos[2])

\* the simulator's state now, in the shape of the record of the tick's start
BoundaryNow ==
    [x |-> sim.x, y |-> sim.y, battery_level |-> sim.battery_level,
     distance_traveled |-> sim.distance_traveled, impacts |-> Len(sim.impacts)]

\* C30: a snapshot is consistent with one tick boundary: once the tick during
\* which it was taken has ended, its battery level, distance, impacts and true
\* position are all those of the start of that tick or all those of its end.
C30_SnapshotFromOneTick ==
    (/\ telemetry.kind = "json"
     /\ sim.pc = "battery"
     /\ sim.ticks = telemetry.timestamp + 1)
    => SnapshotOf(sim.tick) \/ SnapshotOf(BoundaryNow)


(* ------------------------- claims on the estimator step --------------- *)

\* C31: no header-only log is left behind: a worker that has created the log of
\* a vehicle for a record and has ended, without an I/O error of its own, has
\* appended the row of that record to the log; the estimator step between the
\* creation and the append does not abort the worker.
C31_NoHeaderOnlyLog ==
    \A w \in Conns :
        (pc[w] = "done" /\ "create" \in did[w] /\ "ioerror" \notin did[w])
        => /\ "append" \in did[w]
           /\ RowsFrom(w, files[PathOf(msg[w].forklift_id)].rows) # {}


(* ----------------------------- claims on stop() ----------------------- *)

\* the ticks the simulation loop may still complete once running is cleared: the
\* tick in progress, none when the loop was at its test
TicksAllowed ==
    sim.stopped_at.ticks + (IF sim.stopped_at.pc = "battery" THEN 0 ELSE 1)

\* no stop() is under way: a loop whose flag was cleared has ended, and a call of
\* stop() that cleared it has returned. The flag is cleared once and for ever, so
\* that this holds again and again means that each stop() ends its loop and returns.
Settled ==
    /\ sim.running \/ sim.pc = "exited"
    /\ snd.running \/ snd.pc = "exited"
    /\ sim.stop # "join"
    /\ snd.stop # "join"

\* C32: after stop() the loop of a ForkliftSimulator and of a TelemetrySender
\* ends: it finishes at most the iteration in progress, does no tick and no send
\* once it has seen running = false, and stop() itself returns.
C32_StopTerminates ==
    /\ []<>Settled
    /\ [](~sim.running => sim.ticks <= TicksAllowed)
    /\ [](~snd.running => /\ snd.iteration = snd.stopped_at.iteration
                          /\ Len(snd.attempts) <= snd.iteration)
    /\ [][sim.pc = "exited" =>
            /\ sim'.pc = "exited" /\ sim'.ticks = sim.ticks
            /\ sim'.x = sim.x /\ sim'.y = sim.y /\ sim'.impacts = sim.impacts]_vars
    /\ [][snd.pc = "exited" =>
            /\ snd'.pc = "exited" /\ snd'.attempts = snd.attempts
            /\ conns' = conns /\ telemetry' = telemetry]_vars

\* a sender stopped between its snapshot and its connect has made the delivery of
\* that iteration and ended, and stop() has returned
C32_Witness ==
    /\ snd.pc = "exited" /\ snd.stop = "returned"
    /\ snd.stopped_at.pc = "connect"
    /\ snd.iteration = 1 /\ Len(snd.attempts) = 1
    /\ conns[1].state = "closed"

====
